---------------------------- MODULE Spec2Model ----------------------------
(***************************************************************************)
(* Model of the text-normalisation pipeline of matopt's frontend:          *)
(*   - preprocessLaTeX / _processNonCodeSegment (utils/formulaHelpers.ts)  *)
(*   - renderSegments of InlineMathText                                    *)
(* A string is a sequence of one-character strings.  Every regular         *)
(* expression of the source is modelled by the leftmost, backtracking      *)
(* match JavaScript performs for it, and String.prototype.replace with a   *)
(* replacement STRING by the substitution of its "$" patterns.             *)
(***************************************************************************)
EXTENDS Naturals, Sequences, FiniteSets

VARIABLES content, segments, processed, result, again, parts, runs, pc,
          tag, children, target, parsed, view,
          conversations, activeId, loading, error, closure, requests, nextId,
          lastAssistant, followups, followupsLoading, fetches

\* The state of one fenced block on its way through the code renderer
fenceVars == <<tag, children, target, parsed, view>>

\* The state of the markdown components
renderVars ==
    <<content, segments, processed, result, again, parts, runs, pc, fenceVars>>

\* The state of useChat (conversations, activeId, loading, error, the values
\* the callbacks of the last render closed over, the calls of sendMessage that
\* await their reply, the counter of uid) and of MessageList (the last
\* assistant message of its props, followups, followupsLoading, the calls of
\* fetchFollowUps)
hookVars ==
    <<conversations, activeId, loading, error, closure, requests, nextId,
      lastAssistant, followups, followupsLoading, fetches>>

vars == <<renderVars, hookVars>>

---------------------------------------------------------------------------
(* Characters *)

BS == "\\"
NL == "\n"
SP == " "
DOLLAR == "$"
\* The backtick, U+0060.  A TLA+ string literal cannot hold that character,
\* so the model writes it as an apostrophe, which is not in its alphabet.
TICK == "'"

\* JavaScript's \s, restricted to the alphabet of the model.
IsSpace(c) == c \in {SP, NL}

---------------------------------------------------------------------------
(* String primitives *)

\* s.startsWith(pat, i - 1), with 1-based i
StartsWithAt(s, i, pat) ==
    /\ i >= 1
    /\ i + Len(pat) - 1 <= Len(s)
    /\ \A k \in 1..Len(pat) : s[i + k - 1] = pat[k]

\* s.indexOf(pat, i - 1) + 1: the first index >= i where pat occurs, 0 if none
RECURSIVE IndexOfFrom(_, _, _)
IndexOfFrom(s, pat, i) ==
    IF i + Len(pat) - 1 > Len(s) THEN 0
    ELSE IF StartsWithAt(s, i, pat) THEN i
    ELSE IndexOfFrom(s, pat, i + 1)

\* The suffix of s from index i (empty when i > Len(s))
From(s, i) == SubSeq(s, i, Len(s))

RECURSIVE TrimStart(_)
TrimStart(s) ==
    IF s # <<>> /\ IsSpace(Head(s)) THEN TrimStart(Tail(s)) ELSE s

RECURSIVE TrimEnd(_)
TrimEnd(s) ==
    IF s # <<>> /\ IsSpace(s[Len(s)]) THEN TrimEnd(SubSeq(s, 1, Len(s) - 1)) ELSE s

\* String.prototype.trim
Trim(s) == TrimEnd(TrimStart(s))

\* Array.prototype.join("")
RECURSIVE Join(_)
Join(ss) == IF ss = <<>> THEN <<>> ELSE Head(ss) \o Join(Tail(ss))

---------------------------------------------------------------------------
(* String.prototype.replace with a replacement string *)

\* GetSubstitution for a replacement string and one capture group: "$$" stands
\* for a single "$", "$1" for the text of group 1, any other character for
\* itself.
RECURSIVE ExpandReplacement(_, _)
ExpandReplacement(template, group1) ==
    IF template = <<>> THEN <<>>
    ELSE IF Len(template) >= 2 /\ template[1] = DOLLAR /\ template[2] = DOLLAR
        THEN <<DOLLAR>> \o ExpandReplacement(SubSeq(template, 3, Len(template)), group1)
    ELSE IF Len(template) >= 2 /\ template[1] = DOLLAR /\ template[2] = "1"
        THEN group1 \o ExpandReplacement(SubSeq(template, 3, Len(template)), group1)
    ELSE <<Head(template)>> \o ExpandReplacement(Tail(template), group1)

---------------------------------------------------------------------------
(* Code-block guard: content.split(/(```[\s\S]*?```)/g) *)

Fence == <<TICK, TICK, TICK>>

\* The split of the suffix of content from index i: the text before the next
\* closed fence, the fence itself (the capture group), then the split of
\* what follows; the remaining text when no closed fence is left.
RECURSIVE SplitCodeBlocksFrom(_, _)
SplitCodeBlocksFrom(content_, i) ==
    LET p == IndexOfFrom(content_, Fence, i)
        q == IF p = 0 THEN 0 ELSE IndexOfFrom(content_, Fence, p + 3)
    IN  IF p = 0 \/ q = 0 THEN << From(content_, i) >>
        ELSE << SubSeq(content_, i, p - 1), SubSeq(content_, p, q + 2) >>
                \o SplitCodeBlocksFrom(content_, q + 3)

\* Mutant: the pattern without its capture group, /```[\s\S]*?```/g, so that
\* split drops the fences.
RECURSIVE SplitNoCaptureFrom(_, _)
SplitNoCaptureFrom(content_, i) ==
    LET p == IndexOfFrom(content_, Fence, i)
        q == IF p = 0 THEN 0 ELSE IndexOfFrom(content_, Fence, p + 3)
    IN  IF p = 0 \/ q = 0 THEN << From(content_, i) >>
        ELSE << SubSeq(content_, i, p - 1) >> \o SplitNoCaptureFrom(content_, q + 3)

SplitCodeBlocksNoCapture(content_) == SplitNoCaptureFrom(content_, 1)

SplitCodeBlocks(content_) == SplitCodeBlocksFrom(content_, 1)

---------------------------------------------------------------------------
(* _processNonCodeSegment *)

\* The template literal `\n$$\n${inner.trim()}\n$$\n` of rules 1 and 3
DisplayBlock(inner) ==
    <<NL, DOLLAR, DOLLAR, NL>> \o Trim(inner) \o <<NL, DOLLAR, DOLLAR, NL>>

\* Mutant: rule 2 without the trim, as renderSegments writes it
InlineMathUntrimmed(inner) == <<DOLLAR>> \o inner \o <<DOLLAR>>

\* The template literal `$${inner.trim()}$` of rule 2
InlineMath(inner) == <<DOLLAR>> \o Trim(inner) \o <<DOLLAR>>

\* Rule 1: text.replace(/\\\[([\s\S]*?)\\\]/g, ...)
RECURSIVE ReplaceDisplayFrom(_, _)
ReplaceDisplayFrom(text, i) ==
    LET p == IndexOfFrom(text, <<BS, "[">>, i)
        q == IF p = 0 THEN 0 ELSE IndexOfFrom(text, <<BS, "]">>, p + 2)
    IN  IF p = 0 \/ q = 0 THEN From(text, i)
        ELSE SubSeq(text, i, p - 1) \o DisplayBlock(SubSeq(text, p + 2, q - 1))
                \o ReplaceDisplayFrom(text, q + 2)

\* Mutant: the brackets of rule 1 without their backslashes, /\[([\s\S]*?)\]/g
RECURSIVE ReplaceUnescapedFrom(_, _)
ReplaceUnescapedFrom(text, i) ==
    LET p == IndexOfFrom(text, <<"[">>, i)
        q == IF p = 0 THEN 0 ELSE IndexOfFrom(text, <<"]">>, p + 1)
    IN  IF p = 0 \/ q = 0 THEN From(text, i)
        ELSE SubSeq(text, i, p - 1) \o DisplayBlock(SubSeq(text, p + 1, q - 1))
                \o ReplaceUnescapedFrom(text, q + 1)

ReplaceDisplayUnescaped(text) == ReplaceUnescapedFrom(text, 1)

ReplaceDisplayBackslash(text) == ReplaceDisplayFrom(text, 1)

\* Rule 2: text.replace(/\\\(([\s\S]*?)\\\)/g, ...)
RECURSIVE ReplaceInlineFrom(_, _)
ReplaceInlineFrom(text, i) ==
    LET p == IndexOfFrom(text, <<BS, "(">>, i)
        q == IF p = 0 THEN 0 ELSE IndexOfFrom(text, <<BS, ")">>, p + 2)
    IN  IF p = 0 \/ q = 0 THEN From(text, i)
        ELSE SubSeq(text, i, p - 1) \o InlineMath(SubSeq(text, p + 2, q - 1))
                \o ReplaceInlineFrom(text, q + 2)

ReplaceInlineBackslash(text) == ReplaceInlineFrom(text, 1)

\* Rule 3: /^\$\s*\n([\s\S]*?)\n\s*\$$/gm
\* ^ with the m flag: the start of the text or the place after a newline
AtLineStart(text, i) == i = 1 \/ (i >= 2 /\ i - 1 <= Len(text) /\ text[i - 1] = NL)

\* $ with the m flag, tested at the place before index i
AtLineEnd(text, i) == i = Len(text) + 1 \/ (i <= Len(text) /\ text[i] = NL)

\* The first index >= i that holds no whitespace (Len(text) + 1 if none): where
\* a greedy \s* started at i stops.
RECURSIVE SkipSpace(_, _)
SkipSpace(text, i) ==
    IF i <= Len(text) /\ IsSpace(text[i]) THEN SkipSpace(text, i + 1) ELSE i

\* \n\s*\$$ matched at index j: the index of the closing "$", or 0.
ClosesLoneDollar(text, j) ==
    IF j <= Len(text) /\ text[j] = NL
    THEN LET k == SkipSpace(text, j + 1)
         IN  IF k <= Len(text) /\ text[k] = DOLLAR /\ AtLineEnd(text, k + 1)
             THEN k ELSE 0
    ELSE 0

\* The lazy body ([\s\S]*?) started at s: the first j >= s where the rest of
\* the pattern matches, or 0.
RECURSIVE BodyEndFrom(_, _)
BodyEndFrom(text, j) ==
    IF j > Len(text) THEN 0
    ELSE IF ClosesLoneDollar(text, j) # 0 THEN j
    ELSE BodyEndFrom(text, j + 1)

\* The match of rule 3 that opens with the "$" at p, the newline of "\s*\n"
\* tried at n1 and then, backtracking the greedy \s*, at the newlines before
\* it: <<start of body, end of body + 1, index of closing "$">> or <<>>.
RECURSIVE LoneDollarMatch(_, _, _)
LoneDollarMatch(text, p, n1) ==
    IF n1 <= p THEN <<>>
    ELSE IF text[n1] # NL THEN LoneDollarMatch(text, p, n1 - 1)
    ELSE LET j == BodyEndFrom(text, n1 + 1)
         IN  IF j # 0 THEN <<n1 + 1, j, ClosesLoneDollar(text, j)>>
             ELSE LoneDollarMatch(text, p, n1 - 1)

RECURSIVE ReplaceLoneDollarFrom(_, _, _)
ReplaceLoneDollarFrom(text, i, copied) ==
    \* i: where the next match is tried; copied: the first index not yet output
    IF i > Len(text) THEN From(text, copied)
    ELSE LET m == IF text[i] = DOLLAR /\ AtLineStart(text, i)
                  THEN LoneDollarMatch(text, i, SkipSpace(text, i + 1) - 1)
                  ELSE <<>>
         IN  IF m = <<>> THEN ReplaceLoneDollarFrom(text, i + 1, copied)
             ELSE SubSeq(text, copied, i - 1)
                     \o DisplayBlock(SubSeq(text, m[1], m[2] - 1))
                     \o ReplaceLoneDollarFrom(text, m[3] + 1, m[3] + 1)

ReplaceLoneDollar(text) == ReplaceLoneDollarFrom(text, 1, 1)

\* Rule 4, the two replacement strings as the source writes them
PadBeforeTemplate == <<DOLLAR, "1", NL, NL, DOLLAR, DOLLAR>>
PadAfterTemplate == <<DOLLAR, DOLLAR, NL, NL, DOLLAR, "1">>

NotNewlineOrDollar(c) == c # NL /\ c # DOLLAR

\* /([^\n$])\n?\$/, the pattern with one "$" only, matched at index i
PadBeforeMatchOneDollar(text, i) ==
    IF i <= Len(text) /\ NotNewlineOrDollar(text[i])
    THEN IF StartsWithAt(text, i + 1, <<NL, DOLLAR>>) THEN 3
         ELSE IF StartsWithAt(text, i + 1, <<DOLLAR>>) THEN 2
         ELSE 0
    ELSE 0

\* /([^\n$])\n?\$\$/ matched at index i: the length of the match, or 0
PadBeforeMatch(text, i) ==
    IF i <= Len(text) /\ NotNewlineOrDollar(text[i])
    THEN IF StartsWithAt(text, i + 1, <<NL, DOLLAR, DOLLAR>>) THEN 4
         ELSE IF StartsWithAt(text, i + 1, <<DOLLAR, DOLLAR>>) THEN 3
         ELSE 0
    ELSE 0

\* text.replace(/([^\n$])\n?\$\$/g, "$1\n\n$$")
RECURSIVE PadBeforeFrom(_, _)
PadBeforeFrom(text, i) ==
    IF i > Len(text) THEN <<>>
    ELSE LET n == PadBeforeMatch(text, i)
         IN  IF n = 0 THEN <<text[i]>> \o PadBeforeFrom(text, i + 1)
             ELSE ExpandReplacement(PadBeforeTemplate, <<text[i]>>)
                     \o PadBeforeFrom(text, i + n)

PadBefore(text) == PadBeforeFrom(text, 1)

\* /\$\$\n?([^\n$])/ matched at index i: the length of the match, or 0
PadAfterMatch(text, i) ==
    IF StartsWithAt(text, i, <<DOLLAR, DOLLAR>>)
    THEN IF i + 3 <= Len(text) /\ text[i + 2] = NL /\ NotNewlineOrDollar(text[i + 3])
         THEN 4
         ELSE IF i + 2 <= Len(text) /\ NotNewlineOrDollar(text[i + 2]) THEN 3
         ELSE 0
    ELSE 0

\* text.replace(/\$\$\n?([^\n$])/g, "$$\n\n$1")
RECURSIVE PadAfterFrom(_, _)
PadAfterFrom(text, i) ==
    IF i > Len(text) THEN <<>>
    ELSE LET n == PadAfterMatch(text, i)
         IN  IF n = 0 THEN <<text[i]>> \o PadAfterFrom(text, i + 1)
             ELSE ExpandReplacement(PadAfterTemplate, <<text[i + n - 1]>>)
                     \o PadAfterFrom(text, i + n)

PadAfter(text) == PadAfterFrom(text, 1)

_processNonCodeSegment(text) ==
    PadAfter(PadBefore(ReplaceLoneDollar(
        ReplaceInlineBackslash(ReplaceDisplayBackslash(text)))))

\* Mutant: the map without the guard, every segment rewritten
ProcessSegmentsUnguarded(segs) ==
    [idx \in 1..Len(segs) |-> _processNonCodeSegment(segs[idx])]

\* segments.map((seg, idx) => ...): idx is 0-based, so the code blocks are at
\* the even indices of the 1-based sequence.
ProcessSegments(segs) ==
    [idx \in 1..Len(segs) |->
        IF (idx - 1) % 2 = 1 THEN segs[idx] ELSE _processNonCodeSegment(segs[idx])]

preprocessLaTeX(content_) == Join(ProcessSegments(SplitCodeBlocks(content_)))

---------------------------------------------------------------------------
(* renderSegments of InlineMathText *)

\* The template literal `$${inner}$` (no trim)
InlineMathRaw(inner) == <<DOLLAR>> \o inner \o <<DOLLAR>>

\* text.replace(/\\\(([\s\S]*?)\\\)/g, (_m, inner) => `$${inner}$`)
RECURSIVE NormaliseInlineFrom(_, _)
NormaliseInlineFrom(text, i) ==
    LET p == IndexOfFrom(text, <<BS, "(">>, i)
        q == IF p = 0 THEN 0 ELSE IndexOfFrom(text, <<BS, ")">>, p + 2)
    IN  IF p = 0 \/ q = 0 THEN From(text, i)
        ELSE SubSeq(text, i, p - 1) \o InlineMathRaw(SubSeq(text, p + 2, q - 1))
                \o NormaliseInlineFrom(text, q + 2)

NormaliseInline(text) == NormaliseInlineFrom(text, 1)

\* Mutant: the closing "$" made optional, /\$[^$]+\$?/, so that an unterminated
\* "$" opens a match that runs to the end of the text
InlineDollarMatchOpenEnded(text, p) ==
    IF p + 1 <= Len(text) /\ text[p] = DOLLAR /\ text[p + 1] # DOLLAR
    THEN LET q == IndexOfFrom(text, <<DOLLAR>>, p + 2)
         IN  IF q = 0 THEN Len(text) ELSE q
    ELSE 0

\* /\$[^$]+?\$/ matched at index p: the index of the closing "$", or 0
InlineDollarMatch(text, p) ==
    IF p + 2 <= Len(text) /\ text[p] = DOLLAR /\ text[p + 1] # DOLLAR
    THEN IndexOfFrom(text, <<DOLLAR>>, p + 2)
    ELSE 0

\* normalised.split(/(\$[^$]+?\$)/g)
RECURSIVE SplitInlineFrom(_, _, _)
SplitInlineFrom(text, i, copied) ==
    IF i > Len(text) THEN << From(text, copied) >>
    ELSE LET q == InlineDollarMatch(text, i)
         IN  IF q = 0 THEN SplitInlineFrom(text, i + 1, copied)
             ELSE << SubSeq(text, copied, i - 1), SubSeq(text, i, q) >>
                     \o SplitInlineFrom(text, q + 1, q + 1)

SplitInline(text) == SplitInlineFrom(text, 1, 1)

\* part.startsWith("$") && part.endsWith("$") && part.length > 2
IsMathPart(part) ==
    Len(part) > 2 /\ part[1] = DOLLAR /\ part[Len(part)] = DOLLAR

\* parts.map(...): a KaTeX span of part.slice(1, -1), or a span of the part.
\* katex.renderToString is called with throwOnError: false and is taken not
\* to throw, so the catch branch (the raw part as text) is not modelled.
RenderPart(part) ==
    IF IsMathPart(part)
    THEN [kind |-> "Math", body |-> SubSeq(part, 2, Len(part) - 1)]
    ELSE [kind |-> "Text", body |-> part]

renderSegments(text) ==
    LET split == SplitInline(NormaliseInline(text))
    IN  [i \in 1..Len(split) |-> RenderPart(split[i])]

---------------------------------------------------------------------------
(* Words of the source, spelled as strings of the model *)

\* The characters of a word the source writes: a key, a literal, a tag
Chars(w) ==
    CASE w = "type" -> <<"t","y","p","e">>
      [] w = "data" -> <<"d","a","t","a">>
      [] w = "options" -> <<"o","p","t","i","o","n","s">>
      [] w = "height" -> <<"h","e","i","g","h","t">>
      [] w = "responsive" -> <<"r","e","s","p","o","n","s","i","v","e">>
      [] w = "maintainAspectRatio" -> <<"m","a","i","n","t","a","i","n","A","s","p","e","c","t","R","a","t","i","o">>
      [] w = "plugins" -> <<"p","l","u","g","i","n","s">>
      [] w = "legend" -> <<"l","e","g","e","n","d">>
      [] w = "position" -> <<"p","o","s","i","t","i","o","n">>
      [] w = "bottom" -> <<"b","o","t","t","o","m">>
      [] w = "labels" -> <<"l","a","b","e","l","s">>
      [] w = "boxWidth" -> <<"b","o","x","W","i","d","t","h">>
      [] w = "boxHeight" -> <<"b","o","x","H","e","i","g","h","t">>
      [] w = "title" -> <<"t","i","t","l","e">>
      [] w = "scales" -> <<"s","c","a","l","e","s">>
      [] w = "length" -> <<"l","e","n","g","t","h">>
      [] w = "layout" -> <<"l","a","y","o","u","t">>
      [] w = "config" -> <<"c","o","n","f","i","g">>
      [] w = "autosize" -> <<"a","u","t","o","s","i","z","e">>
      [] w = "margin" -> <<"m","a","r","g","i","n">>
      [] w = "l" -> <<"l">>
      [] w = "r" -> <<"r">>
      [] w = "t" -> <<"t">>
      [] w = "b" -> <<"b">>
      [] w = "font" -> <<"f","o","n","t">>
      [] w = "family" -> <<"f","a","m","i","l","y">>
      [] w = "inherit" -> <<"i","n","h","e","r","i","t">>
      [] w = "size" -> <<"s","i","z","e">>
      [] w = "paper_bgcolor" -> <<"p","a","p","e","r","_","b","g","c","o","l","o","r">>
      [] w = "transparent" -> <<"t","r","a","n","s","p","a","r","e","n","t">>
      [] w = "plot_bgcolor" -> <<"p","l","o","t","_","b","g","c","o","l","o","r">>
      [] w = "#fafafa" -> <<"#","f","a","f","a","f","a">>
      [] w = "xaxis" -> <<"x","a","x","i","s">>
      [] w = "gridcolor" -> <<"g","r","i","d","c","o","l","o","r">>
      [] w = "#e6e6f0" -> <<"#","e","6","e","6","f","0">>
      [] w = "zeroline" -> <<"z","e","r","o","l","i","n","e">>
      [] w = "yaxis" -> <<"y","a","x","i","s">>
      [] w = "orientation" -> <<"o","r","i","e","n","t","a","t","i","o","n">>
      [] w = "h" -> <<"h">>
      [] w = "y" -> <<"y">>
      [] w = "colorway" -> <<"c","o","l","o","r","w","a","y">>
      [] w = "#10a37f" -> <<"#","1","0","a","3","7","f">>
      [] w = "#3b82f6" -> <<"#","3","b","8","2","f","6">>
      [] w = "#f59e0b" -> <<"#","f","5","9","e","0","b">>
      [] w = "#ef4444" -> <<"#","e","f","4","4","4","4">>
      [] w = "#8b5cf6" -> <<"#","8","b","5","c","f","6">>
      [] w = "displayModeBar" -> <<"d","i","s","p","l","a","y","M","o","d","e","B","a","r">>
      [] w = "modeBarButtonsToRemove" -> <<"m","o","d","e","B","a","r","B","u","t","t","o","n","s","T","o","R","e","m","o","v","e">>
      [] w = "lasso2d" -> <<"l","a","s","s","o","2","d">>
      [] w = "select2d" -> <<"s","e","l","e","c","t","2","d">>
      [] w = "displaylogo" -> <<"d","i","s","p","l","a","y","l","o","g","o">>
      [] w = "-0.15" -> <<"-","0",".","1","5">>
      [] w = "null" -> <<"n","u","l","l">>
      [] w = "true" -> <<"t","r","u","e">>
      [] w = "false" -> <<"f","a","l","s","e">>
      [] w = "bar" -> <<"b","a","r">>
      [] w = "top" -> <<"t","o","p">>
      [] w = "tall" -> <<"t","a","l","l">>
      [] w = "not" -> <<"n","o","t">>
      [] w = "json" -> <<"j","s","o","n">>
      [] w = "language-" -> <<"l","a","n","g","u","a","g","e","-">>
      [] w = "mermaid" -> <<"m","e","r","m","a","i","d">>
      [] w = "plotly" -> <<"p","l","o","t","l","y">>
      [] w = "chartjs" -> <<"c","h","a","r","t","j","s">>
      [] w = "chart" -> <<"c","h","a","r","t">>
      [] w = "Mermaid" -> <<"M","e","r","m","a","i","d">>
      [] w = "js" -> <<"j","s">>
      [] w = "c" -> <<"c">>
      [] w = "x" -> <<"x">>
      [] w = "objective" -> <<"o","b","j","e","c","t","i","v","e">>
      [] w = "a" -> <<"a">>
      [] w = "ab" -> <<"a","b">>

QUOTE == "\""

DigitChars == <<"0", "1", "2", "3", "4", "5", "6", "7", "8", "9">>

IsDigit(c) == \E n \in 1..10 : DigitChars[n] = c

DigitValue(c) == (CHOOSE n \in 1..10 : DigitChars[n] = c) - 1

\* String(n) for a natural number
RECURSIVE ToDigits(_)
ToDigits(n) ==
    IF n < 10 THEN <<DigitChars[n + 1]>>
    ELSE ToDigits(n \div 10) \o <<DigitChars[(n % 10) + 1]>>

Letters ==
    { "a", "b", "c", "d", "e", "f", "g", "h", "i", "j", "k", "l", "m",
      "n", "o", "p", "q", "r", "s", "t", "u", "v", "w", "x", "y", "z",
      "A", "B", "C", "D", "E", "F", "G", "H", "I", "J", "K", "L", "M",
      "N", "O", "P", "Q", "R", "S", "T", "U", "V", "W", "X", "Y", "Z" }

\* JavaScript's \w
IsWordChar(c) == c \in Letters \/ IsDigit(c) \/ c = "_"

---------------------------------------------------------------------------
(* JavaScript values, as JSON.parse and the object literals build them *)

\* A value is [t |-> its kind, v |-> its content]: a natural number, a string
\* of characters, a sequence of values, a function from keys to values.  A
\* number the source writes that is no natural keeps its text ("float").
\* "throw" stands for an exception that leaves the function.
JUndefined == [t |-> "undefined", v |-> 0]
JNull == [t |-> "null", v |-> 0]
JBool(b) == [t |-> "bool", v |-> b]
JNum(n) == [t |-> "num", v |-> n]
JFloat(text) == [t |-> "float", v |-> text]
JStr(chars) == [t |-> "str", v |-> chars]
JArr(elems) == [t |-> "arr", v |-> elems]
JObj(fields) == [t |-> "obj", v |-> fields]
Thrown == [t |-> "throw", v |-> 0]

EmptyFields == [k \in {} |-> JUndefined]

\* { ...f, key: value }
WithField(f, key, value) ==
    [k \in DOMAIN f \cup {key} |-> IF k = key THEN value ELSE f[k]]

\* { ...f, ...g }
MergeFields(f, g) ==
    [k \in DOMAIN f \cup DOMAIN g |-> IF k \in DOMAIN g THEN g[k] ELSE f[k]]

\* ToBoolean
Truthy(x) ==
    CASE x.t = "undefined" -> FALSE
      [] x.t = "null" -> FALSE
      [] x.t = "bool" -> x.v
      [] x.t = "num" -> x.v # 0
      [] x.t = "str" -> x.v # <<>>
      [] OTHER -> TRUE

\* typeof x === "number"
IsNumber(x) == x.t \in { "num", "float" }

\* x.key for an x that is neither null nor undefined
GetField(x, key) ==
    CASE x.t = "obj" -> IF key \in DOMAIN x.v THEN x.v[key] ELSE JUndefined
      [] x.t \in { "arr", "str" } ->
            IF key = Chars("length") THEN JNum(Len(x.v)) ELSE JUndefined
      [] OTHER -> JUndefined

IsNullish(x) == x.t \in { "undefined", "null" }

\* x?.key
OptionalField(x, key) == IF IsNullish(x) THEN JUndefined ELSE GetField(x, key)

\* The own enumerable properties { ...x } copies: the fields of an object, the
\* indices of an array or of a string, nothing of any other value
SpreadFields(x) ==
    CASE x.t = "obj" -> x.v
      [] x.t = "arr" ->
            [k \in { ToDigits(n - 1) : n \in 1..Len(x.v) } |->
                x.v[CHOOSE n \in 1..Len(x.v) : ToDigits(n - 1) = k]]
      [] x.t = "str" ->
            [k \in { ToDigits(n - 1) : n \in 1..Len(x.v) } |->
                JStr(<<x.v[CHOOSE n \in 1..Len(x.v) : ToDigits(n - 1) = k]>>)]
      [] OTHER -> EmptyFields

---------------------------------------------------------------------------
(* JSON.parse, for texts without escapes, fractions, exponents and signs *)

ParseFail == [ok |-> FALSE, val |-> JUndefined, next |-> 0]
Parsed(value, next_) == [ok |-> TRUE, val |-> value, next |-> next_]

\* A string literal opened by the quote at i: its characters up to the next
\* quote; a raw newline inside it is a syntax error
ParseStringAt(s, i) ==
    LET j == IndexOfFrom(s, <<QUOTE>>, i + 1)
    IN  IF j = 0 \/ IndexOfFrom(SubSeq(s, i + 1, j - 1), <<NL>>, 1) # 0 THEN ParseFail
        ELSE Parsed(JStr(SubSeq(s, i + 1, j - 1)), j + 1)

\* The first index >= i that holds no digit
RECURSIVE SkipDigits(_, _)
SkipDigits(s, i) ==
    IF i <= Len(s) /\ IsDigit(s[i]) THEN SkipDigits(s, i + 1) ELSE i

RECURSIVE DecimalValue(_)
DecimalValue(digits) ==
    IF digits = <<>> THEN 0
    ELSE 10 * DecimalValue(SubSeq(digits, 1, Len(digits) - 1))
            + DigitValue(digits[Len(digits)])

\* A number opened by the digit at i; a leading zero ends it
ParseNumberAt(s, i) ==
    LET j == IF s[i] = "0" THEN i + 1 ELSE SkipDigits(s, i)
    IN  Parsed(JNum(DecimalValue(SubSeq(s, i, j - 1))), j)

RECURSIVE ParseValue(_, _)
RECURSIVE ParseMembers(_, _, _)
RECURSIVE ParseElements(_, _, _)

\* A value that starts at or after i, whitespace skipped
ParseValue(s, i0) ==
    LET i == SkipSpace(s, i0)
    IN  IF i > Len(s) THEN ParseFail
        ELSE IF s[i] = QUOTE THEN ParseStringAt(s, i)
        ELSE IF IsDigit(s[i]) THEN ParseNumberAt(s, i)
        ELSE IF StartsWithAt(s, i, Chars("null")) THEN Parsed(JNull, i + 4)
        ELSE IF StartsWithAt(s, i, Chars("true")) THEN Parsed(JBool(TRUE), i + 4)
        ELSE IF StartsWithAt(s, i, Chars("false")) THEN Parsed(JBool(FALSE), i + 5)
        ELSE IF s[i] = "{" THEN
            LET j == SkipSpace(s, i + 1)
            IN  IF j <= Len(s) /\ s[j] = "}" THEN Parsed(JObj(EmptyFields), j + 1)
                ELSE ParseMembers(s, j, EmptyFields)
        ELSE IF s[i] = "[" THEN
            LET j == SkipSpace(s, i + 1)
            IN  IF j <= Len(s) /\ s[j] = "]" THEN Parsed(JArr(<<>>), j + 1)
                ELSE ParseElements(s, j, <<>>)
        ELSE ParseFail

\* The members of an object from the key at i on; a later key replaces an
\* earlier equal one
ParseMembers(s, i, fields) ==
    IF i > Len(s) \/ s[i] # QUOTE THEN ParseFail
    ELSE LET key == ParseStringAt(s, i)
             colon == IF key.ok THEN SkipSpace(s, key.next) ELSE 0
         IN  IF ~key.ok \/ colon > Len(s) \/ s[colon] # ":" THEN ParseFail
             ELSE LET value == ParseValue(s, colon + 1)
                      sep == IF value.ok THEN SkipSpace(s, value.next) ELSE 0
                      now == WithField(fields, key.val.v, value.val)
                  IN  IF ~value.ok \/ sep > Len(s) THEN ParseFail
                      ELSE IF s[sep] = "}" THEN Parsed(JObj(now), sep + 1)
                      ELSE IF s[sep] = "," THEN ParseMembers(s, SkipSpace(s, sep + 1), now)
                      ELSE ParseFail

\* The elements of an array from the value at i on
ParseElements(s, i, elems) ==
    LET value == ParseValue(s, i)
        sep == IF value.ok THEN SkipSpace(s, value.next) ELSE 0
        now == Append(elems, value.val)
    IN  IF ~value.ok \/ sep > Len(s) THEN ParseFail
        ELSE IF s[sep] = "]" THEN Parsed(JArr(now), sep + 1)
        ELSE IF s[sep] = "," THEN ParseElements(s, sep + 1, now)
        ELSE ParseFail

\* JSON.parse(text): the value, or Thrown for a SyntaxError
JSONParse(text) ==
    LET r == ParseValue(text, 1)
    IN  IF r.ok /\ SkipSpace(text, r.next) = Len(text) + 1 THEN r.val ELSE Thrown


---------------------------------------------------------------------------
(* The fenced block the markdown library finds in the string it is given *)

\* The least element of a non-empty set of numbers, 0 for the empty set
Least(S) == IF S = {} THEN 0 ELSE CHOOSE n \in S : \A m \in S : n <= m

\* The first index >= i where a line starts with three backticks, 0 if none
FenceLineFrom(doc, i) ==
    Least({ p \in i..Len(doc) : AtLineStart(doc, p) /\ StartsWithAt(doc, p, Fence) })

\* The first fenced block of doc: its info string as tag and the lines between
\* its opening line and its closing line (or the end of doc) as value; the
\* code renderer receives the value followed by a newline, or "" for no value
FencedBlock(doc) ==
    LET open == FenceLineFrom(doc, 1)
        eol == IF open = 0 THEN 0 ELSE IndexOfFrom(doc, <<NL>>, open)
        close == IF eol = 0 THEN 0 ELSE FenceLineFrom(doc, eol + 1)
        info == IF eol = 0 THEN From(doc, open + 3) ELSE SubSeq(doc, open + 3, eol - 1)
        value == IF eol = 0 THEN <<>>
                 ELSE IF close = 0 THEN TrimEnd(From(doc, eol + 1))
                 ELSE SubSeq(doc, eol + 1, close - 2)
    IN  [ found |-> open # 0,
          tag |-> Trim(info),
          children |-> IF value = <<>> THEN <<>> ELSE value \o <<NL>> ]

---------------------------------------------------------------------------
(* The code renderer of MarkdownRenderer: one fenced block to one element *)

\* The className the markdown library hands to the code renderer for a fenced
\* block: "language-" followed by the tag of the fence, none (here: the empty
\* string, which className || "" does not tell apart) for a fence without tag
ClassNameOf(fenceTag) ==
    IF fenceTag = <<>> THEN <<>> ELSE Chars("language-") \o fenceTag

\* The first index >= i that holds no word character
RECURSIVE SkipWord(_, _)
SkipWord(s, i) ==
    IF i <= Len(s) /\ IsWordChar(s[i]) THEN SkipWord(s, i + 1) ELSE i

\* /language-(\w+)/.exec(s) from index i on: group 1 of the leftmost match,
\* the longest run of word characters after "language-"; <<>> for no match
RECURSIVE ExecLanguageFrom(_, _)
ExecLanguageFrom(s, i) ==
    LET p == IndexOfFrom(s, Chars("language-"), i)
        w == p + Len(Chars("language-"))
    IN  IF p = 0 THEN <<>>
        ELSE IF SkipWord(s, w) > w THEN SubSeq(s, w, SkipWord(s, w) - 1)
        ELSE ExecLanguageFrom(s, p + 1)

\* match ? match[1] : ""
LangOf(className) == ExecLanguageFrom(className, 1)

\* String(children).trimEnd(): every trailing newline and blank goes
CodeStringTrimEnd(kids) == TrimEnd(kids)

\* String(children).replace(/\n$/, "")
CodeStringOf(kids) ==
    IF kids # <<>> /\ kids[Len(kids)] = NL
    THEN SubSeq(kids, 1, Len(kids) - 1)
    ELSE kids

Element(kind_, language_, body_) ==
    [kind |-> kind_, language |-> language_, body |-> body_]

NoElement == Element("None", <<>>, <<>>)

\* code({ className, children }): the element the block becomes
CodeElement(className, kids) ==
    LET lang == LangOf(className)
        codeString == CodeStringOf(kids)
    IN  IF lang = Chars("mermaid") THEN Element("Diagram", <<>>, codeString)
        ELSE IF lang = Chars("plotly") THEN Element("InteractiveChart", <<>>, codeString)
        ELSE IF lang = Chars("chartjs") \/ lang = Chars("chart")
            THEN Element("StaticChart", <<>>, codeString)
        ELSE IF lang # <<>> THEN Element("HighlightedCode", lang, codeString)
        ELSE Element("VerbatimCode", <<>>, kids)

---------------------------------------------------------------------------
(* ChartRenderer *)

DefaultHeight == 360

\* The test of the type and data fields that reads them only for presence
ChartFieldsAbsent(obj) ==
    \/ OptionalField(obj, Chars("type")).t = "undefined"
    \/ OptionalField(obj, Chars("data")).t = "undefined"

\* !obj?.type || !obj?.data
ChartFieldsMissing(obj) ==
    \/ ~Truthy(OptionalField(obj, Chars("type")))
    \/ ~Truthy(OptionalField(obj, Chars("data")))

\* obj.height || 360
ChartHeightIfTruthy(obj) ==
    IF Truthy(GetField(obj, Chars("height")))
    THEN GetField(obj, Chars("height"))
    ELSE JNum(DefaultHeight)

\* typeof obj.height === "number" ? obj.height : 360
ChartHeight(obj) ==
    IF IsNumber(GetField(obj, Chars("height")))
    THEN GetField(obj, Chars("height"))
    ELSE JNum(DefaultHeight)

\* legend: { position: "bottom", labels: { boxWidth: 12, boxHeight: 12 } }
DefaultLegend ==
    JObj(WithField(WithField(EmptyFields,
        Chars("position"), JStr(Chars("bottom"))),
        Chars("labels"), JObj(WithField(WithField(EmptyFields,
            Chars("boxWidth"), JNum(12)),
            Chars("boxHeight"), JNum(12)))))

\* The properties the options literal writes before its spread
ChartDefaults(obj) ==
    LET opts == GetField(obj, Chars("options"))
    IN  WithField(WithField(WithField(WithField(EmptyFields,
            Chars("responsive"), JBool(TRUE)),
            Chars("maintainAspectRatio"), JBool(FALSE)),
            Chars("plugins"), JObj(WithField(WithField(EmptyFields,
                Chars("legend"), DefaultLegend),
                Chars("title"),
                    OptionalField(OptionalField(opts, Chars("plugins")), Chars("title"))))),
            Chars("scales"), OptionalField(opts, Chars("scales")))

\* The options literal with its spread written first: { ...obj.options, ... }
ChartOptionsDefaultsLast(obj) ==
    JObj(MergeFields(SpreadFields(GetField(obj, Chars("options"))), ChartDefaults(obj)))

\* options: { responsive, maintainAspectRatio, plugins, scales, ...obj.options }
ChartOptions(obj) ==
    JObj(MergeFields(ChartDefaults(obj), SpreadFields(GetField(obj, Chars("options")))))

\* The useMemo of ChartRenderer: null, or { type, data, options, height }
ChartParsed(json) ==
    LET obj == JSONParse(json)
    IN  IF obj.t = "throw" THEN JNull
        ELSE IF ChartFieldsMissing(obj) THEN JNull
        ELSE JObj(WithField(WithField(WithField(WithField(EmptyFields,
                Chars("type"), GetField(obj, Chars("type"))),
                Chars("data"), GetField(obj, Chars("data"))),
                Chars("options"), ChartOptions(obj)),
                Chars("height"), ChartHeight(obj)))

\* The class of the element ChartRenderer returns
ChartView(chartParsed) ==
    IF ~Truthy(chartParsed) THEN "chart-error" ELSE "chart-container"

---------------------------------------------------------------------------
(* PlotRenderer *)

Color(w) == JStr(Chars(w))

Axis ==
    JObj(WithField(WithField(EmptyFields,
        Chars("gridcolor"), Color("#e6e6f0")),
        Chars("zeroline"), JBool(FALSE)))

DEFAULT_LAYOUT ==
    LET margin == WithField(WithField(WithField(WithField(EmptyFields,
                    Chars("l"), JNum(50)), Chars("r"), JNum(30)),
                    Chars("t"), JNum(40)), Chars("b"), JNum(50))
        font == WithField(WithField(EmptyFields,
                    Chars("family"), JStr(Chars("inherit"))),
                    Chars("size"), JNum(14))
        legend == WithField(WithField(EmptyFields,
                    Chars("orientation"), JStr(Chars("h"))),
                    Chars("y"), JFloat(Chars("-0.15")))
        colorway == << Color("#10a37f"), Color("#3b82f6"), Color("#f59e0b"),
                       Color("#ef4444"), Color("#8b5cf6") >>
    IN  WithField(WithField(WithField(WithField(WithField(WithField(
        WithField(WithField(WithField(EmptyFields,
            Chars("autosize"), JBool(TRUE)),
            Chars("margin"), JObj(margin)),
            Chars("font"), JObj(font)),
            Chars("paper_bgcolor"), JStr(Chars("transparent"))),
            Chars("plot_bgcolor"), Color("#fafafa")),
            Chars("xaxis"), Axis),
            Chars("yaxis"), Axis),
            Chars("legend"), JObj(legend)),
            Chars("colorway"), JArr(colorway))

DEFAULT_CONFIG ==
    WithField(WithField(WithField(WithField(EmptyFields,
        Chars("responsive"), JBool(TRUE)),
        Chars("displayModeBar"), JBool(TRUE)),
        Chars("modeBarButtonsToRemove"),
            JArr(<< JStr(Chars("lasso2d")), JStr(Chars("select2d")) >>)),
        Chars("displaylogo"), JBool(FALSE))

\* The useMemo of PlotRenderer: null, or { data, layout, config }; reading a
\* property of null throws inside the try
PlotParsed(json) ==
    LET obj == JSONParse(json)
    IN  IF obj.t = "throw" \/ IsNullish(obj) THEN JNull
        ELSE JObj(WithField(WithField(WithField(EmptyFields,
                Chars("data"),
                    IF Truthy(GetField(obj, Chars("data")))
                    THEN GetField(obj, Chars("data")) ELSE JArr(<<>>)),
                Chars("layout"),
                    JObj(MergeFields(DEFAULT_LAYOUT, SpreadFields(GetField(obj, Chars("layout")))))),
                Chars("config"),
                    JObj(MergeFields(DEFAULT_CONFIG, SpreadFields(GetField(obj, Chars("config")))))))

\* The test of the parsed plot without its length part: !parsed
PlotFailedOnNull(plotParsed) == ~Truthy(plotParsed)

\* !parsed || parsed.data.length === 0
PlotFailed(plotParsed) ==
    \/ ~Truthy(plotParsed)
    \/ LET n == GetField(GetField(plotParsed, Chars("data")), Chars("length"))
       IN  n.t = "num" /\ n.v = 0

\* The class of the element PlotRenderer returns
PlotView(plotParsed) ==
    IF PlotFailed(plotParsed) THEN "plot-error" ELSE "plot-container"


---------------------------------------------------------------------------
(* Inputs *)

\* Bounds of the model-checked input sets
MaxTokens == 3
MaxDelims == 4
MaxPad == 1
MaxBody == 2
MaxPart == 1
MaxText == 4

\* The concatenation of a tuple of strings given as a function on 1..k
RECURSIVE ConcatFrom(_, _)
ConcatFrom(ts, i) ==
    IF i > Len(ts) THEN <<>> ELSE ts[i] \o ConcatFrom(ts, i + 1)

\* All concatenations of at most n strings of the set tokens
Concats(tokens, n) ==
    { ConcatFrom(ts, 1) : ts \in UNION { [1..k -> tokens] : k \in 0..n } }

OpenDisplay == <<BS, "[">>
CloseDisplay == <<BS, "]">>
OpenInline == <<BS, "(">>
CloseInline == <<BS, ")">>

\* Documents over the whole alphabet
Tokens ==
    { <<BS>>, <<"[">>, <<"]">>, <<"(">>, <<")">>, <<DOLLAR>>, <<NL>>, <<SP>>,
      <<TICK>>, <<"a">>, OpenDisplay, CloseDisplay, OpenInline, CloseInline, Fence }

TokenDocs == Concats(Tokens, MaxTokens)

\* Nested and overlapping backslash delimiters
DelimTokens == { OpenDisplay, CloseDisplay, OpenInline, CloseInline, <<"a">> }

DelimDocs == Concats(DelimTokens, MaxDelims)

\* One inline region \( x \) in delimiter-free text
Pads == Concats({ <<"a">>, <<NL>>, <<SP>> }, MaxPad)
Bodies == Concats({ <<"a">>, <<SP>> }, MaxBody)

InlineDocs ==
    { pre \o OpenInline \o x \o CloseInline \o post :
        pre \in Pads, x \in Bodies, post \in Pads }

\* Prose, a fence (closed or not), prose
FenceParts ==
    Concats({ <<"a">>, <<DOLLAR, DOLLAR>>, OpenDisplay \o <<"a">> \o CloseDisplay },
            MaxPart)

FenceDocs ==
    { pre \o Fence \o code \o close \o post :
        pre \in FenceParts, code \in FenceParts, close \in { <<>>, Fence },
        post \in FenceParts }

\* A "$" on a line, a body, a "$" on a line, with or without blanks beside
\* the dollars, in text
LoneDollarDocs ==
    { pre \o <<DOLLAR>> \o w1 \o <<NL>> \o x \o <<NL>> \o w2 \o <<DOLLAR>> \o post :
        pre \in Pads, w1 \in { <<>>, <<SP>> }, x \in Bodies \cup { <<"a", NL, "a">> },
        w2 \in { <<>>, <<SP>> }, post \in Pads }

\* The documents the specification's examples name
ExampleDocs ==
    { <<"t", "e", "x", "t", DOLLAR, DOLLAR, NL, "X", NL, DOLLAR, DOLLAR,
        "m", "o", "r", "e">>,
      OpenDisplay \o <<SP>> \o OpenDisplay \o <<SP, "a", SP>> \o CloseDisplay
          \o <<SP>> \o CloseDisplay }

Documents ==
    TokenDocs \cup DelimDocs \cup InlineDocs \cup FenceDocs \cup LoneDollarDocs
        \cup ExampleDocs

\* Short strings handed to InlineMathText
TextTokens == { <<DOLLAR>>, <<"a">>, <<NL>>, <<SP>>, OpenInline, CloseInline }

ExampleTexts ==
    { <<"a", SP, DOLLAR, "b", DOLLAR, SP, "c">>, <<"a", SP, DOLLAR, "b", SP, "c">> }

Texts == Concats(TextTokens, MaxText) \cup ExampleTexts

\* Fence tags: words of the routing table and neighbours of them
MaxTagTokens == 2

TagTokens ==
    { Chars("mermaid"), Chars("plotly"), Chars("chartjs"), Chars("chart"),
      Chars("Mermaid"), Chars("js"), Chars("c"), Chars("x"),
      Chars("language-"), <<"+">>, <<"-">>, <<".">>, <<"_">> }

ExampleTags ==
    { Chars("c") \o <<"+", "+">>,
      Chars("objective") \o <<"-">> \o Chars("c"),
      Chars("chart") \o <<".">> \o Chars("js"),
      Chars("mermaid") \o <<"-">> \o Chars("x") }

Tags == Concats(TagTokens, MaxTagTokens) \cup ExampleTags

\* Bodies of a fenced block; the markdown library hands the code of the block
\* over with a newline after its last line
CodeBodies ==
    { <<>>, <<NL>>, <<"a">>, <<"a", NL>>, <<"a", NL, NL>>, <<"a", NL, "b", NL>> }

\* JSON texts: short runs of lexical tokens ...
MaxJsonTokens == 2

Quoted(chars) == <<QUOTE>> \o chars \o <<QUOTE>>

JsonTokens ==
    { <<"{">>, <<"}">>, <<"[">>, <<"]">>, <<",">>, <<":">>, <<"0">>, <<"7">>,
      Chars("null"), Chars("true"), Quoted(Chars("a")), <<SP>>, <<"x">> }

\* ... and objects written field by field; <<>> leaves a field out
Field(key, valueText) == Quoted(Chars(key)) \o <<":">> \o valueText

RECURSIVE CommaJoin(_)
CommaJoin(texts) ==
    IF texts = <<>> THEN <<>>
    ELSE IF Head(texts) = <<>> THEN CommaJoin(Tail(texts))
    ELSE IF CommaJoin(Tail(texts)) = <<>> THEN Head(texts)
    ELSE Head(texts) \o <<",">> \o CommaJoin(Tail(texts))

ObjectText(fields) == <<"{">> \o CommaJoin(fields) \o <<"}">>

TypeFields ==
    { <<>>, Field("type", Quoted(Chars("bar"))), Field("type", Quoted(<<>>)),
      Field("type", <<"0">>), Field("type", Chars("null")) }

DataFields ==
    { <<>>, Field("data", <<"{", "}">>), Field("data", <<"[", "]">>),
      Field("data", <<"[", "{", "}", "]">>), Field("data", Chars("null")),
      Field("data", <<"0">>), Field("data", Quoted(Chars("ab"))),
      Field("data", ObjectText(<<Field("length", <<"0">>)>>)) }

HeightFields ==
    { <<>>, Field("height", <<"0">>), Field("height", <<"2", "0", "0">>),
      Field("height", Quoted(Chars("tall"))), Field("height", Chars("null")) }

OptionsFields ==
    { <<>>, Field("options", <<"{", "}">>),
      Field("options", ObjectText(<<Field("responsive", Chars("false"))>>)),
      Field("options", ObjectText(<<
          Field("plugins", ObjectText(<<Field("title", Quoted(Chars("t")))>>)),
          Field("maintainAspectRatio", Chars("true"))>>)),
      Field("options", ObjectText(<<Field("scales", <<"{", "}">>),
                                    Field("x", <<"1">>)>>)),
      Field("options", Chars("null")),
      Field("options", Quoted(Chars("ab"))),
      Field("options", <<"[", "1", "]">>) }

LayoutFields ==
    { <<>>, Field("layout", ObjectText(<<Field("autosize", Chars("false"))>>)) }

PayloadTexts ==
    { ObjectText(<<t, d, h, o, l>>) :
        t \in TypeFields, d \in DataFields, h \in HeightFields,
        o \in OptionsFields, l \in LayoutFields }

ExampleJson ==
    { Chars("not") \o <<SP>> \o Chars("json"),
      ObjectText(<<Field("type", Quoted(Chars("bar"))), Field("type", Quoted(<<>>)),
                   Field("data", <<"{", "}">>)>>),
      <<"{", SP>> \o Field("type", <<SP>> \o Quoted(Chars("bar")) \o <<NL>>)
            \o <<",", SP>> \o Field("data", <<"{", SP, "}">>) \o <<NL, "}", NL>> }

JsonTexts == Concats(JsonTokens, MaxJsonTokens) \cup PayloadTexts \cup ExampleJson

ChartTags == { Chars("chartjs"), Chars("chart"), Chars("plotly") }

\* A document that is prose, then a closed fence tagged "mermaid": the opening
\* line, the lines of the body, the closing line
MermaidFence(body) ==
    Fence \o Chars("mermaid") \o <<NL>>
        \o (IF body = <<>> THEN <<>> ELSE body \o <<NL>>) \o Fence

ProseBeforeFence ==
    FenceParts \cup
    { <<"a", SP>> \o OpenDisplay \o <<SP, "a", SP>> \o CloseDisplay \o <<SP>>
          \o OpenInline \o <<"a">> \o CloseInline \o <<".">>,
      <<"a", DOLLAR, DOLLAR, "a">> }

MermaidBodies ==
    { b \in Concats({ <<"a">>, <<NL>>, <<TICK>>, <<DOLLAR, DOLLAR>>,
                      OpenInline \o <<"a">> \o CloseInline }, MaxBody) :
        IndexOfFrom(b \o <<NL>>, Fence, 1) = 0 }

MermaidDocs ==
    { prose \o <<NL>> \o MermaidFence(body) :
        prose \in ProseBeforeFence, body \in MermaidBodies }

---------------------------------------------------------------------------
(* The render pass of MarkdownRenderer: preprocessLaTeX on the content *)

\* No fenced block is under way
NoFence ==
    /\ tag = <<>>
    /\ children = <<>>
    /\ target = NoElement
    /\ parsed = JUndefined
    /\ view = "none"

\* null, and undefined where the source does not tell them apart
Null == <<>>

\* The hooks as they are before their first call
NoHooks ==
    /\ conversations = <<>>
    /\ activeId = Null
    /\ loading = FALSE
    /\ error = Null
    /\ closure = [activeId |-> Null, conversations |-> <<>>]
    /\ requests = <<>>
    /\ nextId = 1
    /\ lastAssistant = Null
    /\ followups = <<>>
    /\ followupsLoading = FALSE
    /\ fetches = <<>>

TypeOK ==
    /\ pc \in { "input", "normalized", "renormalized", "rendered", "parsed", "dispatched", "shown",
                "hooks" }
    /\ Len(processed) = Len(segments)

Init ==
    /\ content \in Documents
    /\ segments = <<>>
    /\ processed = <<>>
    /\ result = <<>>
    /\ again = <<>>
    /\ parts = <<>>
    /\ runs = <<>>
    /\ pc = "input"
    /\ NoFence
    /\ NoHooks

\* preprocessLaTeX(content): split, map, join
Preprocess ==
    /\ pc = "input"
    /\ segments' = SplitCodeBlocks(content)
    /\ processed' = ProcessSegments(segments')
    /\ result' = Join(processed')
    /\ pc' = "normalized"
    /\ UNCHANGED <<content, again, parts, runs, fenceVars, hookVars>>

\* preprocessLaTeX applied to its own output
Reprocess ==
    /\ pc = "normalized"
    /\ again' = preprocessLaTeX(result)
    /\ pc' = "renormalized"
    /\ UNCHANGED <<content, segments, processed, result, parts, runs, fenceVars, hookVars>>

Next == Preprocess \/ Reprocess

Spec == Init /\ [][Next]_vars

---------------------------------------------------------------------------
(* InlineMathText: renderSegments on a short text *)

InitInline ==
    /\ content \in Texts
    /\ segments = <<>>
    /\ processed = <<>>
    /\ result = <<>>
    /\ again = <<>>
    /\ parts = <<>>
    /\ runs = <<>>
    /\ pc = "input"
    /\ NoFence
    /\ NoHooks

\* renderSegments(text): normalise, split, map
Render ==
    /\ pc = "input"
    /\ parts' = SplitInline(NormaliseInline(content))
    /\ runs' = renderSegments(content)
    /\ pc' = "rendered"
    /\ UNCHANGED <<content, segments, processed, result, again, fenceVars, hookVars>>

NextInline == Render

SpecInline == InitInline /\ [][NextInline]_vars

---------------------------------------------------------------------------
(* The code renderer on one fenced block, then the chart component *)

InitFence ==
    /\ content = <<>>
    /\ segments = <<>>
    /\ processed = <<>>
    /\ result = <<>>
    /\ again = <<>>
    /\ parts = <<>>
    /\ runs = <<>>
    /\ pc = "parsed"
    /\ \/ tag \in Tags /\ children \in CodeBodies
       \/ tag \in ChartTags /\ children \in { json \o <<NL>> : json \in JsonTexts }
    /\ target = NoElement
    /\ parsed = JUndefined
    /\ view = "none"
    /\ NoHooks

\* code({ className, children }) for the block
Dispatch ==
    /\ pc = "parsed"
    /\ target' = CodeElement(ClassNameOf(tag), children)
    /\ pc' = "dispatched"
    /\ UNCHANGED <<content, segments, processed, result, again, parts, runs,
                   tag, children, parsed, view, hookVars>>

\* <ChartRenderer json={codeString} />
RenderChart ==
    /\ pc = "dispatched"
    /\ target.kind = "StaticChart"
    /\ parsed' = ChartParsed(target.body)
    /\ view' = ChartView(parsed')
    /\ pc' = "shown"
    /\ UNCHANGED <<content, segments, processed, result, again, parts, runs,
                   tag, children, target, hookVars>>

\* <PlotRenderer json={codeString} />
RenderPlot ==
    /\ pc = "dispatched"
    /\ target.kind = "InteractiveChart"
    /\ parsed' = PlotParsed(target.body)
    /\ view' = PlotView(parsed')
    /\ pc' = "shown"
    /\ UNCHANGED <<content, segments, processed, result, again, parts, runs,
                   tag, children, target, hookVars>>

NextFence == Dispatch \/ RenderChart \/ RenderPlot

SpecFence == InitFence /\ [][NextFence]_vars

---------------------------------------------------------------------------
(* MarkdownRenderer on a document with a fence: preprocessLaTeX, the markdown
   library, the code renderer *)

InitDocument ==
    /\ content \in MermaidDocs
    /\ segments = <<>>
    /\ processed = <<>>
    /\ result = <<>>
    /\ again = <<>>
    /\ parts = <<>>
    /\ runs = <<>>
    /\ pc = "input"
    /\ NoFence
    /\ NoHooks

\* <ReactMarkdown>{processed}</ReactMarkdown>: the library finds the fenced
\* block and hands it to the code renderer
ParseFence ==
    /\ pc = "normalized"
    /\ FencedBlock(result).found
    /\ tag' = FencedBlock(result).tag
    /\ children' = FencedBlock(result).children
    /\ pc' = "parsed"
    /\ UNCHANGED <<content, segments, processed, result, again, parts, runs,
                   target, parsed, view, hookVars>>

NextDocument == Preprocess \/ ParseFence \/ Dispatch

SpecDocument == InitDocument /\ [][NextDocument]_vars

---------------------------------------------------------------------------
(* useChat *)

\* Bounds: the values uid hands out, the calls of sendMessage
MaxUid == 3
MaxSends == 2

\* prev.map((c) => c.id === convId ? { ...c, messages: [...c.messages, msg] } : c)
\* (title, createdAt, updatedAt and timestamp, which no callback reads, are
\* left out of the records)
AppendMessage(convs, convId, msg) ==
    [i \in 1..Len(convs) |->
        IF convs[i].id = convId
        THEN [convs[i] EXCEPT !.messages = Append(@, msg)]
        ELSE convs[i]]

InitChat ==
    /\ content = <<>>
    /\ segments = <<>>
    /\ processed = <<>>
    /\ result = <<>>
    /\ again = <<>>
    /\ parts = <<>>
    /\ runs = <<>>
    /\ pc = "hooks"
    /\ NoFence
    /\ NoHooks

\* A render of the component that calls useChat: the callbacks are made anew
\* and close over the state of this render
RenderChat ==
    /\ closure # [activeId |-> activeId, conversations |-> conversations]
    /\ closure' = [activeId |-> activeId, conversations |-> conversations]
    /\ UNCHANGED <<renderVars, conversations, activeId, loading, error, requests,
                   nextId, lastAssistant, followups, followupsLoading, fetches>>

CreateConversation ==
    /\ nextId <= MaxUid
    /\ conversations' =
          << [id |-> <<"conv", nextId>>, messages |-> <<>>] >> \o conversations
    /\ activeId' = <<"conv", nextId>>
    /\ error' = Null
    /\ nextId' = nextId + 1
    /\ UNCHANGED <<renderVars, loading, closure, requests,
                   lastAssistant, followups, followupsLoading, fetches>>

SwitchConversation(id) ==
    /\ activeId' = id
    /\ error' = Null
    /\ UNCHANGED <<renderVars, conversations, loading, closure, requests, nextId,
                   lastAssistant, followups, followupsLoading, fetches>>

\* deleteConversation closes over activeId
DeleteConversation(id) ==
    /\ conversations' = SelectSeq(conversations, LAMBDA c : c.id # id)
    /\ activeId' = IF closure.activeId = id THEN Null ELSE activeId
    /\ UNCHANGED <<renderVars, loading, error, closure, requests, nextId,
                   lastAssistant, followups, followupsLoading, fetches>>

\* sendMessage(text) up to its await; it closes over activeId and conversations.
\* The call keeps convId, its user message and the history it sent; held, the
\* messages the conversation has when the call is made, is kept beside them.
SendMessage(text) ==
    LET fresh == closure.activeId = Null
        convId == IF fresh THEN <<"conv", nextId>> ELSE closure.activeId
        userMsg == [id |-> <<"msg", IF fresh THEN nextId + 1 ELSE nextId>>,
                    role |-> "user", content |-> text]
        withConv == IF fresh
                    THEN << [id |-> convId, messages |-> <<>>] >> \o conversations
                    ELSE conversations
        messagesOf(convs) ==
            LET found == { i \in 1..Len(convs) : convs[i].id = convId }
            IN  IF found = {} THEN <<>> ELSE convs[Least(found)].messages
        history == [i \in 1..(Len(messagesOf(closure.conversations)) + 1) |->
                       LET m == Append(messagesOf(closure.conversations), userMsg)[i]
                       IN  [role |-> m.role, content |-> m.content]]
    IN  /\ Len(requests) < MaxSends
        /\ nextId + (IF fresh THEN 1 ELSE 0) <= MaxUid
        /\ conversations' = AppendMessage(withConv, convId, userMsg)
        /\ activeId' = IF fresh THEN convId ELSE activeId
        /\ loading' = TRUE
        /\ error' = Null
        /\ requests' = Append(requests,
              [conv |-> convId, user |-> userMsg, history |-> history,
               held |-> messagesOf(conversations), state |-> "pending"])
        /\ nextId' = nextId + (IF fresh THEN 2 ELSE 1)
        /\ UNCHANGED <<renderVars, closure,
                       lastAssistant, followups, followupsLoading, fetches>>

\* The assistant message made of the response to call r
AssistantMsg(r) ==
    [id |-> <<"resp", r>>, role |-> "assistant", content |-> <<"answer", r>>]

\* The reply to call r, appended to the conversation that is active now
ReplyToActive(r) ==
    /\ requests[r].state = "pending"
    /\ conversations' = AppendMessage(conversations, activeId, AssistantMsg(r))
    /\ loading' = FALSE
    /\ requests' = [requests EXCEPT ![r].state = "replied"]
    /\ UNCHANGED <<renderVars, activeId, error, closure, nextId,
                   lastAssistant, followups, followupsLoading, fetches>>

\* sendChatMessage resolves for call r: the rest of the try, then finally
Reply(r) ==
    /\ requests[r].state = "pending"
    /\ conversations' = AppendMessage(conversations, requests[r].conv, AssistantMsg(r))
    /\ loading' = FALSE
    /\ requests' = [requests EXCEPT ![r].state = "replied"]
    /\ UNCHANGED <<renderVars, activeId, error, closure, nextId,
                   lastAssistant, followups, followupsLoading, fetches>>

\* The failure of call r, with the user message of the call taken back
FailTakesBack(r) ==
    /\ requests[r].state = "pending"
    /\ conversations' =
          [i \in 1..Len(conversations) |->
              [conversations[i] EXCEPT !.messages =
                  SelectSeq(@, LAMBDA m : m.id # requests[r].user.id)]]
    /\ error' = <<"error", r>>
    /\ loading' = FALSE
    /\ requests' = [requests EXCEPT ![r].state = "failed"]
    /\ UNCHANGED <<renderVars, activeId, closure, nextId,
                   lastAssistant, followups, followupsLoading, fetches>>

\* sendChatMessage rejects for call r: catch, then finally
Fail(r) ==
    /\ requests[r].state = "pending"
    /\ error' = <<"error", r>>
    /\ loading' = FALSE
    /\ requests' = [requests EXCEPT ![r].state = "failed"]
    /\ UNCHANGED <<renderVars, conversations, activeId, closure, nextId,
                   lastAssistant, followups, followupsLoading, fetches>>

NextChat ==
    \/ RenderChat
    \/ CreateConversation
    \/ \E i \in 1..Len(conversations) : SwitchConversation(conversations[i].id)
    \/ \E i \in 1..Len(conversations) : DeleteConversation(conversations[i].id)
    \/ \E text \in { <<"ask", 1>>, <<"ask", 2>> } : SendMessage(text)
    \/ \E r \in 1..Len(requests) : Reply(r)
    \/ \E r \in 1..Len(requests) : Fail(r)

SpecChat == InitChat /\ [][NextChat]_vars

---------------------------------------------------------------------------
(* MessageList: the follow-ups of the last assistant message *)

MaxFetches == 3

InitList ==
    /\ content = <<>>
    /\ segments = <<>>
    /\ processed = <<>>
    /\ result = <<>>
    /\ again = <<>>
    /\ parts = <<>>
    /\ runs = <<>>
    /\ pc = "hooks"
    /\ NoFence
    /\ NoHooks

\* The callback loadFollowups up to its await, also the handler of the
\* regenerate button of the last assistant row
LoadFollowups ==
    /\ lastAssistant # Null
    /\ lastAssistant.content # <<>>
    /\ Len(fetches) < MaxFetches
    /\ followupsLoading' = TRUE
    /\ fetches' = Append(fetches, [content |-> lastAssistant.content,
                                   state |-> "pending", followups |-> <<>>])
    /\ UNCHANGED <<renderVars, conversations, activeId, loading, error, closure,
                   requests, nextId, lastAssistant, followups>>

\* The props change the last assistant message to msg (Null when the messages
\* hold none): the component renders and the effect on its id and content runs
ShowAssistant(msg) ==
    /\ msg # lastAssistant
    /\ lastAssistant' = msg
    /\ IF msg = Null \/ msg.content = <<>>
       THEN /\ followups' = <<>>
            /\ followupsLoading' = FALSE
            /\ UNCHANGED fetches
       ELSE /\ Len(fetches) < MaxFetches
            /\ followupsLoading' = TRUE
            /\ fetches' = Append(fetches, [content |-> msg.content,
                                           state |-> "pending", followups |-> <<>>])
            /\ UNCHANGED followups
    /\ UNCHANGED <<renderVars, conversations, activeId, loading, error, closure,
                   requests, nextId>>

\* fetchFollowUps of call f resolves with resp
FetchDone(f, resp) ==
    LET trimmed == [i \in 1..Len(resp) |-> Trim(resp[i])]
        kept == SelectSeq(trimmed, LAMBDA t : t # <<>>)
    IN  /\ fetches[f].state = "pending"
        /\ followups' = kept
        /\ followupsLoading' = FALSE
        /\ fetches' = [fetches EXCEPT ![f].state = "done", ![f].followups = kept]
        /\ UNCHANGED <<renderVars, conversations, activeId, loading, error, closure,
                       requests, nextId, lastAssistant>>

\* fetchFollowUps of call f rejects
FetchFail(f) ==
    /\ fetches[f].state = "pending"
    /\ followups' = <<>>
    /\ followupsLoading' = FALSE
    /\ fetches' = [fetches EXCEPT ![f].state = "failed"]
    /\ UNCHANGED <<renderVars, conversations, activeId, loading, error, closure,
                   requests, nextId, lastAssistant>>

NextList ==
    \/ LoadFollowups
    \/ \E msg \in {Null} \cup [id : { <<"resp", 1>>, <<"resp", 2>> },
                               content : { <<>>, <<"a">>, <<"b">> }] :
          ShowAssistant(msg)
    \/ \E f \in 1..Len(fetches) :
          \E resp \in { <<fetches[f].content \o <<"?">>>>,
                        << <<SP>> \o fetches[f].content \o <<"!", SP>>, <<SP>> >> } :
              FetchDone(f, resp)
    \/ \E f \in 1..Len(fetches) : FetchFail(f)

SpecList == InitList /\ [][NextList]_vars

---------------------------------------------------------------------------
(* Vocabulary of the properties *)

Contains(s, pat) == IndexOfFrom(s, pat, 1) # 0

EndsWith(s, suffix) ==
    Len(suffix) <= Len(s) /\ SubSeq(s, Len(s) - Len(suffix) + 1, Len(s)) = suffix

\* 1-based positions of the split: Prose at the odd ones, Code at the even ones
ProseIndices(segs) == { i \in 1..Len(segs) : i % 2 = 1 }
CodeIndices(segs) == { i \in 1..Len(segs) : i % 2 = 0 }

\* The summed length of the strings before position i
RECURSIVE LengthBefore(_, _)
LengthBefore(ss, i) ==
    IF i <= 1 THEN 0 ELSE LengthBefore(ss, i - 1) + Len(ss[i - 1])

\* No "$" and no opening backslash delimiter
NoOpener(s) ==
    /\ ~Contains(s, <<DOLLAR>>)
    /\ ~Contains(s, OpenDisplay)
    /\ ~Contains(s, OpenInline)

\* No "$" and no backslash delimiter at all
NoDelimiter(s) ==
    /\ NoOpener(s)
    /\ ~Contains(s, CloseDisplay)
    /\ ~Contains(s, CloseInline)

\* An opening delimiter with a closing one after it
HasPair(s, open, close) ==
    LET p == IndexOfFrom(s, open, 1)
    IN  p # 0 /\ IndexOfFrom(s, close, p + 2) # 0

\* s is pre, open, x, close, post with pre and post free of delimiters and x
\* free of delimiters too: <<pre, x, post>>, or <<>> when s is not of that form
Region(s, open, close) ==
    LET p == IndexOfFrom(s, open, 1)
        q == IF p = 0 THEN 0 ELSE IndexOfFrom(s, close, p + 2)
    IN  IF p = 0 \/ q = 0 THEN <<>>
        ELSE LET pre == SubSeq(s, 1, p - 1)
                 x == SubSeq(s, p + 2, q - 1)
                 post == From(s, q + 2)
             IN  IF NoDelimiter(pre) /\ NoDelimiter(x) /\ NoDelimiter(post)
                 THEN <<pre, x, post>> ELSE <<>>

\* Every "$" of s has exactly one "$" beside it: the dollars of s are "$$" markers
PairedDollars(s) ==
    \A i \in 1..Len(s) :
        s[i] = DOLLAR =>
            ((i > 1 /\ s[i - 1] = DOLLAR) # (i < Len(s) /\ s[i + 1] = DOLLAR))

\* The places where a "$$" marker starts in a string of paired dollars
MarkerStarts(s) ==
    { i \in 1..(Len(s) - 1) :
        /\ s[i] = DOLLAR /\ s[i + 1] = DOLLAR
        /\ (i = 1 \/ s[i - 1] # DOLLAR) }

\* A blank line, or the start of the span, before index i
BlankBefore(s, i) == i = 1 \/ (s[i - 1] = NL /\ (i = 2 \/ s[i - 2] = NL))

\* A blank line, or the end of the span, after index i
BlankAfter(s, i) ==
    i = Len(s) \/ (s[i + 1] = NL /\ (i + 1 = Len(s) \/ s[i + 2] = NL))

---------------------------------------------------------------------------
(* Properties *)

\* C1: normalisation is idempotent: preprocessLaTeX applied to its own output
\* returns that output.
Idempotent == pc = "renormalized" => again = result

\* C2: the split on closed fences is lossless: an odd number of segments, a
\* whole fence at each Code position, and the segments concatenated in order
\* are the document.
GuardLossless ==
    pc # "input" =>
        /\ Join(segments) = content
        /\ Len(segments) % 2 = 1
        /\ \A i \in CodeIndices(segments) :
              /\ Len(segments[i]) >= 6
              /\ StartsWithAt(segments[i], 1, Fence)
              /\ EndsWith(segments[i], Fence)

GuardLosslessWitness ==
    /\ pc = "normalized"
    /\ Len(segments) = 3
    /\ segments[1] # <<>> /\ Len(segments[2]) > 6 /\ segments[3] # <<>>

\* C3: every closed fence stands unchanged in the output, in order, at the
\* place the segments before it leave it, and the output is the concatenation
\* of the rewritten Prose segments and the unchanged Code segments.
CodeSpansImmutable ==
    pc # "input" =>
        /\ Len(processed) = Len(segments)
        /\ \A i \in CodeIndices(segments) :
              SubSeq(result, LengthBefore(processed, i) + 1,
                     LengthBefore(processed, i) + Len(segments[i])) = segments[i]
        /\ result = Join([i \in 1..Len(segments) |->
                            IF i \in CodeIndices(segments) THEN segments[i]
                            ELSE _processNonCodeSegment(segments[i])])

CodeSpansImmutableWitness ==
    /\ pc = "normalized"
    /\ \E i \in CodeIndices(segments) :
          /\ Contains(segments[i], <<DOLLAR, DOLLAR>>) \/ HasPair(segments[i], OpenDisplay, CloseDisplay)
          /\ _processNonCodeSegment(segments[i]) # segments[i]
    /\ \E j \in ProseIndices(segments) : processed[j] # segments[j]

\* C4: an opening fence that is never closed keeps everything from it to the
\* end of the document unchanged in the output.
UnclosedFenceAbsorbs ==
    pc # "input" =>
        LET last == segments[Len(segments)]
            p == IndexOfFrom(last, Fence, 1)
        IN  p # 0 => EndsWith(result, From(last, p))

\* C5: a Prose span pre \[ x \] post, delimiter-free but for that region,
\* holds in its output the block "$$", newline, trimmed x, newline, "$$", with
\* a blank line before it when pre is not empty and one after it when post
\* is not empty.
DisplayRoundTrip ==
    pc # "input" =>
        \A i \in ProseIndices(segments) :
            LET r == Region(segments[i], OpenDisplay, CloseDisplay)
                block == <<DOLLAR, DOLLAR, NL>> \o Trim(r[2]) \o <<NL, DOLLAR, DOLLAR>>
            IN  r # <<>> =>
                    /\ Contains(processed[i], block)
                    /\ r[1] # <<>> => Contains(processed[i], <<NL, NL>> \o block)
                    /\ r[3] # <<>> => Contains(processed[i], block \o <<NL, NL>>)

\* C6 as stated: a Prose span pre \( x \) post, x without newline, is
\* rewritten to pre $ trimmed x $ post, whatever x is.
InlineRoundTripAnyBody ==
    pc # "input" =>
        \A i \in ProseIndices(segments) :
            LET r == Region(segments[i], OpenInline, CloseInline)
            IN  (r # <<>> /\ ~Contains(r[2], <<NL>>)) =>
                    processed[i] = r[1] \o <<DOLLAR>> \o Trim(r[2]) \o <<DOLLAR>> \o r[3]

\* C6, amended: a Prose span pre \( x \) post, x without newline and not
\* blank, is rewritten to pre $ trimmed x $ post.
InlineRoundTrip ==
    pc # "input" =>
        \A i \in ProseIndices(segments) :
            LET r == Region(segments[i], OpenInline, CloseInline)
            IN  (r # <<>> /\ ~Contains(r[2], <<NL>>) /\ Trim(r[2]) # <<>>) =>
                    processed[i] = r[1] \o <<DOLLAR>> \o Trim(r[2]) \o <<DOLLAR>> \o r[3]

InlineRoundTripWitness ==
    /\ pc = "normalized"
    /\ \E i \in ProseIndices(segments) :
          LET r == Region(segments[i], OpenInline, CloseInline)
          IN  /\ r # <<>>
              /\ r[1] # <<>> /\ r[3] # <<>>
              /\ Trim(r[2]) # <<>> /\ Trim(r[2]) # r[2]
              /\ processed[i] = r[1] \o <<DOLLAR>> \o Trim(r[2]) \o <<DOLLAR>> \o r[3]

\* C7: in a Prose span whose dollars are "$$" markers and that holds no
\* backslash delimiter, every marker is kept as "$$" and, in the output,
\* stands between blank lines (or at the boundary of the span).
PaddingKeepsMarkers ==
    pc # "input" =>
        \A i \in ProseIndices(segments) :
            (/\ PairedDollars(segments[i])
             /\ ~Contains(segments[i], OpenDisplay)
             /\ ~Contains(segments[i], OpenInline)) =>
                /\ PairedDollars(processed[i])
                /\ Cardinality(MarkerStarts(processed[i]))
                      = Cardinality(MarkerStarts(segments[i]))
                /\ \A j \in MarkerStarts(processed[i]) :
                      BlankBefore(processed[i], j) /\ BlankAfter(processed[i], j + 1)

\* C8: a Prose span without "$", without \[ and without \( is returned as it is.
PlainProseUnchanged ==
    pc # "input" =>
        \A i \in ProseIndices(segments) :
            NoOpener(segments[i]) => processed[i] = segments[i]

PlainProseUnchangedWitness ==
    /\ pc = "normalized"
    /\ \E i \in ProseIndices(segments) :
          /\ NoOpener(segments[i])
          /\ Contains(segments[i], <<"[">>) /\ Contains(segments[i], <<"]">>)
          /\ processed[i] = segments[i]

\* C9: no Prose span of the output holds a pair \[ ... \] or a pair \( ... \).
OnlyCanonicalForms ==
    pc # "input" =>
        LET out == SplitCodeBlocks(result)
        IN  \A i \in ProseIndices(out) :
                /\ ~HasPair(out[i], OpenDisplay, CloseDisplay)
                /\ ~HasPair(out[i], OpenInline, CloseInline)

\* C10: the runs alternate, Text at the odd places and Math at the even ones,
\* the runs with each Math body wrapped in "$" again concatenate to the text
\* after step 1, and "a $b$ c" gives Text "a ", Math "b", Text " c".
SplitterAlternates ==
    pc = "rendered" =>
        /\ \A i \in 1..Len(runs) : (runs[i].kind = "Math") <=> (i % 2 = 0)
        /\ Join([i \in 1..Len(runs) |->
                    IF runs[i].kind = "Math"
                    THEN <<DOLLAR>> \o runs[i].body \o <<DOLLAR>>
                    ELSE runs[i].body]) = NormaliseInline(content)
        /\ content = <<"a", SP, DOLLAR, "b", DOLLAR, SP, "c">> =>
              runs = << [kind |-> "Text", body |-> <<"a", SP>>],
                        [kind |-> "Math", body |-> <<"b">>],
                        [kind |-> "Text", body |-> <<SP, "c">>] >>

\* The number of "$" in s
RECURSIVE CountDollars(_)
CountDollars(s) ==
    IF s = <<>> THEN 0
    ELSE (IF Head(s) = DOLLAR THEN 1 ELSE 0) + CountDollars(Tail(s))

\* C11: a text with exactly one "$" and no \( ... \) pair is rendered as the
\* single Text run that holds the text unchanged.
UnterminatedDollarIsText ==
    pc = "rendered" =>
        ((CountDollars(content) = 1 /\ ~HasPair(content, OpenInline, CloseInline)) =>
            runs = << [kind |-> "Text", body |-> content] >>)

UnterminatedDollarIsTextWitness ==
    /\ pc = "rendered"
    /\ CountDollars(content) = 1
    /\ ~HasPair(content, OpenInline, CloseInline)
    /\ Len(content) >= 3 /\ content[1] # DOLLAR /\ content[Len(content)] # DOLLAR
    /\ runs = << [kind |-> "Text", body |-> content] >>

\* C12: no Math run has a newline in its body.
MathStaysOnOneLine ==
    pc = "rendered" =>
        \A i \in 1..Len(runs) : runs[i].kind = "Math" => ~Contains(runs[i].body, <<NL>>)

\* C13: every Math run has a body of at least one character, none of them "$".
MathBodyWellFormed ==
    pc = "rendered" =>
        \A i \in 1..Len(runs) :
            runs[i].kind = "Math" =>
                runs[i].body # <<>> /\ ~Contains(runs[i].body, <<DOLLAR>>)

Dispatched == pc \in { "dispatched", "shown" }

\* C14: a fenced block goes to Diagram exactly when its tag is "mermaid", to
\* InteractiveChart exactly when it is "plotly", to StaticChart exactly when it
\* is "chartjs" or "chart"; no other tag reaches these targets.
RoutingExact ==
    Dispatched =>
        /\ target.kind = "Diagram" <=> tag = Chars("mermaid")
        /\ target.kind = "InteractiveChart" <=> tag = Chars("plotly")
        /\ target.kind = "StaticChart" <=> tag \in { Chars("chartjs"), Chars("chart") }

\* C15: every non-empty tag outside the routing table goes to HighlightedCode
\* and the highlight language is the tag itself.
HighlightLanguageIsTag ==
    Dispatched =>
        ((tag # <<>> /\ tag \notin { Chars("mermaid"), Chars("plotly"),
                                      Chars("chartjs"), Chars("chart") }) =>
            (target.kind = "HighlightedCode" /\ target.language = tag))

\* C16: the code renderer returns one of the five targets for every tag and
\* body, and VerbatimCode exactly when the tag is empty.
DispatcherTotal ==
    Dispatched =>
        /\ target.kind \in { "Diagram", "InteractiveChart", "StaticChart",
                             "HighlightedCode", "VerbatimCode" }
        /\ target.kind = "VerbatimCode" <=> tag = <<>>

\* The value JSON.parse gives for the body handed to the chart component
Payload == JSONParse(target.body)

ValidJson == Payload.t # "throw"

\* The payload is an object that has the key
Has(obj, key) == obj.t = "obj" /\ key \in DOMAIN obj.v

\* null, false, 0 or ""
IsFalsyLiteral(x) ==
    \/ x.t = "null"
    \/ x.t = "bool" /\ x.v = FALSE
    \/ x.t = "num" /\ x.v = 0
    \/ x.t = "str" /\ x.v = <<>>

\* The payload has the key with a value that is not null, false, 0 or ""
HasTruthy(obj, key) == Has(obj, key) /\ ~IsFalsyLiteral(obj.v[key])

\* Two values are the same value
SameValue(a, b) == a.t = b.t /\ a.v = b.v

ChartShown == pc = "shown" /\ target.kind = "StaticChart"

PlotShown == pc = "shown" /\ target.kind = "InteractiveChart"

\* C17 as stated: ChartRenderer shows the error placeholder exactly when the
\* body is not valid JSON or the parsed value lacks type or data, a chart
\* otherwise, and no exception leaves it.
ChartErrorIffFieldAbsent ==
    ChartShown =>
        /\ view \in { "chart-error", "chart-container" }
        /\ parsed.t # "throw"
        /\ view = "chart-error" <=>
              (~ValidJson \/ ~Has(Payload, Chars("type")) \/ ~Has(Payload, Chars("data")))

\* C17: ChartRenderer shows the error placeholder exactly when the body is not
\* valid JSON or type or data is absent or null, false, 0 or ""; otherwise it
\* shows a chart of the payload's type and data; no exception leaves it.
ChartErrorIffFieldFalsy ==
    ChartShown =>
        /\ view \in { "chart-error", "chart-container" }
        /\ parsed.t # "throw"
        /\ view = "chart-error" <=>
              (~ValidJson \/ ~HasTruthy(Payload, Chars("type"))
                          \/ ~HasTruthy(Payload, Chars("data")))
        /\ view = "chart-container" =>
              /\ SameValue(parsed.v[Chars("type")], Payload.v[Chars("type")])
              /\ SameValue(parsed.v[Chars("data")], Payload.v[Chars("data")])

ChartErrorIffFieldFalsyWitness ==
    /\ ChartShown
    /\ ValidJson
    /\ Has(Payload, Chars("type"))
    /\ Has(Payload, Chars("data"))
    /\ IsFalsyLiteral(Payload.v[Chars("type")])
    /\ view = "chart-error"

\* A value whose length property is 0
HasLengthZero(x) ==
    \/ x.t \in { "arr", "str" } /\ Len(x.v) = 0
    \/ /\ Has(x, Chars("length"))
       /\ x.v[Chars("length")].t = "num"
       /\ x.v[Chars("length")].v = 0

ChartHeightDefaults ==
    (ChartShown /\ view = "chart-container") =>
        IF Has(Payload, Chars("height")) /\ Payload.v[Chars("height")].t = "num"
        THEN SameValue(parsed.v[Chars("height")], Payload.v[Chars("height")])
        ELSE SameValue(parsed.v[Chars("height")], JNum(DefaultHeight))

ChartHeightDefaultsWitness ==
    /\ ChartShown
    /\ view = "chart-container"
    /\ Has(Payload, Chars("height"))
    /\ Payload.v[Chars("height")].t = "str"
    /\ SameValue(parsed.v[Chars("height")], JNum(DefaultHeight))

\* The options of the payload and the options handed to the chart
PayloadOptions == GetField(Payload, Chars("options"))

ChartOptionsShown == parsed.v[Chars("options")]

\* C20: every top-level key of the payload's options has the payload's value
\* in the chart's options; responsive (true), maintainAspectRatio (false) and
\* plugins with legend position "bottom" are there when the payload's options
\* do not have the key.
ChartOptionsOverlay ==
    (ChartShown /\ view = "chart-container") =>
        /\ PayloadOptions.t = "obj" =>
              \A k \in DOMAIN PayloadOptions.v :
                  /\ Has(ChartOptionsShown, k)
                  /\ SameValue(ChartOptionsShown.v[k], PayloadOptions.v[k])
        /\ ~Has(PayloadOptions, Chars("responsive")) =>
              /\ Has(ChartOptionsShown, Chars("responsive"))
              /\ SameValue(ChartOptionsShown.v[Chars("responsive")], JBool(TRUE))
        /\ ~Has(PayloadOptions, Chars("maintainAspectRatio")) =>
              /\ Has(ChartOptionsShown, Chars("maintainAspectRatio"))
              /\ SameValue(ChartOptionsShown.v[Chars("maintainAspectRatio")], JBool(FALSE))
        /\ ~Has(PayloadOptions, Chars("plugins")) =>
              /\ Has(ChartOptionsShown, Chars("plugins"))
              /\ SameValue(
                    GetField(GetField(ChartOptionsShown.v[Chars("plugins")],
                                      Chars("legend")), Chars("position")),
                    JStr(Chars("bottom")))

ChartOptionsOverlayWitness ==
    /\ ChartShown
    /\ view = "chart-container"
    /\ Has(PayloadOptions, Chars("responsive"))
    /\ SameValue(ChartOptionsShown.v[Chars("responsive")], JBool(FALSE))
    /\ ~Has(PayloadOptions, Chars("plugins"))
    /\ Has(ChartOptionsShown, Chars("plugins"))

\* The parts of a document of MermaidDocs: the prose with its newline, the
\* fence, the body between the opening and the closing line
FenceStart == IndexOfFrom(content, Fence, 1)

ProseWritten == SubSeq(content, 1, FenceStart - 1)

FenceWritten == From(content, FenceStart)

BodyWritten ==
    LET first == FenceStart + Len(Fence \o Chars("mermaid")) + 1
    IN  IF first > Len(content) - 3 THEN <<>>
        ELSE SubSeq(content, first, Len(content) - 4)

NoBackslashDelimiter(s) ==
    /\ ~Contains(s, OpenDisplay)
    /\ ~Contains(s, CloseDisplay)
    /\ ~Contains(s, OpenInline)
    /\ ~Contains(s, CloseInline)

NoAdjacentDollars(s) == ~Contains(s, <<DOLLAR, DOLLAR>>)

\* The "$" at index i is all of its line
LoneDollarAt(s, i) ==
    s[i] = DOLLAR /\ AtLineStart(s, i) /\ AtLineEnd(s, i + 1)

\* The "$" at index i is all of its line but for blanks
BlankDollarAt(s, i) ==
    /\ s[i] = DOLLAR
    /\ \E a \in 1..i, b \in i..Len(s) :
          /\ AtLineStart(s, a)
          /\ AtLineEnd(s, b + 1)
          /\ \A k \in a..b : k # i => s[k] = SP

\* C22 as stated: a Prose span without adjacent "$", without backslash
\* delimiter and without a line that is only "$" is returned as it is.
SingleDollarsUntouched ==
    pc = "normalized" =>
        \A i \in ProseIndices(segments) :
            ( /\ NoAdjacentDollars(segments[i])
              /\ NoBackslashDelimiter(segments[i])
              /\ \A k \in 1..Len(segments[i]) : ~LoneDollarAt(segments[i], k) )
            => processed[i] = segments[i]

\* C22: a Prose span without adjacent "$", without backslash delimiter and
\* without a line that is "$" alone or "$" with blanks beside it is returned
\* as it is.
SingleDollarsUntouchedBlank ==
    pc = "normalized" =>
        \A i \in ProseIndices(segments) :
            ( /\ NoAdjacentDollars(segments[i])
              /\ NoBackslashDelimiter(segments[i])
              /\ \A k \in 1..Len(segments[i]) : ~BlankDollarAt(segments[i], k) )
            => processed[i] = segments[i]

SingleDollarsUntouchedBlankWitness ==
    /\ pc = "normalized"
    /\ \E i \in ProseIndices(segments) :
          /\ NoAdjacentDollars(segments[i])
          /\ NoBackslashDelimiter(segments[i])
          /\ \A k \in 1..Len(segments[i]) : ~BlankDollarAt(segments[i], k)
          /\ CountDollars(segments[i]) = 2
          /\ \E k \in 2..Len(segments[i]) :
                segments[i][k] = DOLLAR /\ segments[i][k - 1] \in { "a", SP }
          /\ processed[i] = segments[i]

\* s is pre, a line "$", a body, a line "$", post, with no "$" and no backslash
\* delimiter in pre, body and post: <<pre, body, post>>, or <<>> otherwise
LoneDollarRegion(s) ==
    LET lone == { k \in 1..Len(s) : LoneDollarAt(s, k) }
        p == Least(lone)
        q == Least(lone \ { p })
    IN  IF p = 0 \/ q = 0 \/ q < p + 3 THEN <<>>
        ELSE LET pre == SubSeq(s, 1, p - 1)
                 body == SubSeq(s, p + 2, q - 2)
                 post == From(s, q + 1)
             IN  IF NoDelimiter(pre) /\ NoDelimiter(body) /\ NoDelimiter(post)
                 THEN <<pre, body, post>> ELSE <<>>

\* C23: a Prose span with a line "$", a body, a line "$" holds in its output
\* the block "$$", newline, trimmed body, newline, "$$", with a blank line
\* before it when text precedes and one after it when text follows.
LoneDollarBecomesDisplay ==
    pc = "normalized" =>
        \A i \in ProseIndices(segments) :
            LET r == LoneDollarRegion(segments[i])
                block == <<DOLLAR, DOLLAR, NL>> \o Trim(r[2]) \o <<NL, DOLLAR, DOLLAR>>
            IN  r # <<>> =>
                    /\ Contains(processed[i], block)
                    /\ r[1] # <<>> => Contains(processed[i], <<NL, NL>> \o block)
                    /\ r[3] # <<>> => Contains(processed[i], block \o <<NL, NL>>)

\* C24: the string the splitter splits, its text with \( x \) rewritten to
\* dollar form, is the string rule 2 of the Normalizer gives for that text.
SplitterStepIsRuleTwo ==
    pc = "rendered" => Join(parts) = ReplaceInlineBackslash(content)

\* The conversation with the id, as a set of positions in the list
ConvAt(id) == { i \in 1..Len(conversations) : conversations[i].id = id }

Pending(r) == requests[r].state = "pending"

\* The step is the completion of call r with the outcome
Completes(r, outcome) == Pending(r) /\ requests'[r].state = outcome

\* C25: the history a call of sendMessage sends is, in order, the messages
\* its conversation holds when the call is made, then the new user message.
HistoryIsCurrent ==
    \A r \in 1..Len(requests) :
        LET all == Append(requests[r].held, requests[r].user)
        IN  requests[r].history =
                [i \in 1..Len(all) |-> [role |-> all[i].role, content |-> all[i].content]]

\* C26: activeId is null or the id of a conversation of the list.
ActiveConversationExists == activeId = Null \/ ConvAt(activeId) # {}

\* C27: the reply to a call is appended to the conversation of the call and
\* changes no other; when that conversation is gone the reply changes nothing
\* and no conversation is added.
ReplyLandsWhereAsked ==
    [][ \A r \in 1..Len(requests) :
            Completes(r, "replied") =>
                /\ Len(conversations') = Len(conversations)
                /\ \A i \in 1..Len(conversations) :
                      conversations'[i] =
                          IF conversations[i].id = requests[r].conv
                          THEN [conversations[i] EXCEPT
                                   !.messages = Append(@, AssistantMsg(r))]
                          ELSE conversations[i] ]_vars

ReplyLandsWhereAskedWitness ==
    \E r \in 1..Len(requests) :
        /\ requests[r].state = "replied"
        /\ activeId # Null
        /\ activeId # requests[r].conv
        /\ \E i \in ConvAt(requests[r].conv) :
              /\ Len(conversations[i].messages) >= 2
              /\ conversations[i].messages[Len(conversations[i].messages)] = AssistantMsg(r)
        /\ \A i \in ConvAt(activeId) :
              \A k \in 1..Len(conversations[i].messages) :
                  conversations[i].messages[k].role # "assistant"

\* C28: loading is true whenever a call of sendMessage awaits its reply.
LoadingTracksRequests ==
    (\E r \in 1..Len(requests) : Pending(r)) => loading = TRUE

FollowupsBelongToLatest ==
    LET pending == { f \in 1..Len(fetches) : fetches[f].state = "pending" }
    IN  /\ (pending = {} /\ lastAssistant # Null /\ lastAssistant.content # <<>>)
              => \E f \in 1..Len(fetches) :
                    /\ fetches[f].content = lastAssistant.content
                    /\ followups = fetches[f].followups
        /\ followupsLoading = FALSE => pending = {}

=============================================================================
